---- MODULE Spec2Model ----
(***************************************************************************)
(* Zeno: the capture orchestrator (Capture, captureWithGET,                *)
(* captureWithBrowser) and the WARC producer side (writeWARC,              *)
(* dumpResponseToFile) together with the single WARC writer that consumes  *)
(* the batches placed on the c.WARCWriter channel.                         *)
(*                                                                         *)
(* Every worker is a goroutine that runs one call at a time; a call is     *)
(* Capture(item), writeWARC(resp) or writeWARCFromConnection(req, resp,    *)
(* URL).  One action is one step of the code between two points where      *)
(* another goroutine can interleave.                                       *)
(***************************************************************************)
EXTENDS Integers, Sequences, FiniteSets

\* ---------------------------------------------------------------- bounds
\* goroutines that run calls
NumWorkers == 2
\* calls started in one run, over all workers
MaxCalls == 2
\* largest capacity of c.WARCWriter.  A send waits while the channel is full
QueueCap == 2
\* largest c.MaxHops
MaxHopsBound == 1

\* ------------------------------------------------------ program constants
\* warc.go:147  resp.ContentLength > 2097152
Threshold == 2097152
\* warc.go:147  resp.ContentLength == -1
UnknownLength == 0 - 1

\* ---------------------------------------------------------------- inputs
Workers == 1..NumWorkers
Tasks == {"request", "response"}
ContentLengths == {UnknownLength, Threshold - 1, Threshold, Threshold + 1}
URLs == {[Scheme |-> <<"h">>, Host |-> <<"a">>, Path |-> <<"/", "b">>]}
\* a page is its tokens, text or a link's target
Links == {"l1"}
Pages == {<<"text">>, <<"text", "l1">>}

NoPath == 0
NoChan == 0
None == "none"

VARIABLES
    Headless,       \* c.Headless
    MaxHops,        \* c.MaxHops
    chanCap,        \* cap(c.WARCWriter), as NewWARCRotator made the channel
    held,           \* the side of an exchange whose pipe reaches its end only
                    \* once the other side's pipe is being read (None: neither)
    pc,             \* position of every worker
    cap,            \* Capture and its strategies: item, outlinks, err
    ww,             \* writeWARC and dumpResponseToFile: resp, filePath,
                    \* responsePath, responseRecord, batch
    wc,             \* writeWARCFromConnection: URL, batch and its two tasks
    WaitGroup,      \* c.WaitGroup
    crashed,        \* a goroutine has panicked: the process is gone
    ret,            \* the values the worker's last call returned
    hist,           \* what the running call did (history)
    files,          \* the files of {jobPath}/temp
    nextUUID,       \* uuid.NewV4: the next unused name
    queue,          \* c.WARCWriter
    wpc,            \* the writer's position
    wbatch,         \* the batch the writer holds
    widx,           \* the next record of wbatch to write
    output,         \* the records written, in order
    rateCounter,    \* c.URLsPerSecond
    calls,          \* number of calls started (history)
    captures,       \* number of Capture calls returned (history)
    submitted,      \* the batches in the order their send completed (history)
    signalled       \* ids of the batches whose Done was fired, in order (history)

vars == <<Headless, MaxHops, chanCap, held, pc, cap, ww, wc, WaitGroup, crashed, ret, hist, files, nextUUID, queue,
          wpc, wbatch, widx, output, rateCounter, calls, captures, submitted,
          signalled>>

writerVars == <<wpc, wbatch, widx, output, signalled>>
\* what no call writes: the settings of the crawl and of its surroundings
configVars == <<Headless, MaxHops, chanCap, held>>
connVars == <<wc, WaitGroup, crashed>>

\* ------------------------------------------------------------ pure parts

\* url.QueryEscape: every byte outside the unreserved set becomes %XX
EscapeByte(c) ==
    IF c = "/" THEN <<"%", "2", "F">>
    ELSE IF c = ":" THEN <<"%", "3", "A">>
    ELSE <<c>>

RECURSIVE QueryEscape(_)
QueryEscape(s) ==
    IF s = <<>> THEN <<>> ELSE EscapeByte(Head(s)) \o QueryEscape(Tail(s))

\* URL.String(): scheme://host/path
URLString(u) == u.Scheme \o <<":", "/", "/">> \o u.Host \o u.Path

\* extractOutlinks: the targets of the links of a page (a pure function,
\* string -> set of URLs)
extractOutlinks(page) == {page[i] : i \in 1..Len(page)} \cap Links

\* warc.go:147  the condition that sends the response to disk
SpoolAtThreshold(L) == L = UnknownLength \/ L >= Threshold
NeedSpool(L) == L = UnknownLength \/ L > Threshold

\* part_000:46  the hop-limit guard of the rendered variant
HopGuardAlways(hops) == hops >= 0
HopGuard(hops) == hops > 0

\* part_000:102  the strategy of a Capture call
UseBrowserEither(it, headless) == it.needBrowser \/ headless = TRUE
UseBrowser(it, headless) == it.needBrowser /\ headless = TRUE

\* warc.go:139-142  the response record before its payload is set
NewResponseRecord(r) ==
    [type |-> "response", uri |-> QueryEscape(URLString(r.URL)), host |-> <<>>,
     ctype |-> "application/http; msgtype=response",
     Content |-> None, PayloadPath |-> NoPath]

\* warc.go:171-177  the request record
NewRequestRecord(r) ==
    [type |-> "request", uri |-> QueryEscape(URLString(r.URL)), host |-> r.URL.Host,
     ctype |-> "application/http; msgtype=request",
     Content |-> "requestDump", PayloadPath |-> NoPath]

\* warc.go:186  batch.Done = make(chan bool): a channel no other call has
SharedDone(id) == 1
MakeDone(id) == id

\* warc.go:187,190  c.WARCWriter <- batch: the channel is first in, first out
SendFront(q, b) == <<b>> \o q
Send(q, b) == Append(q, b)

\* warc.go:81-85 and 102-106  the record of a drain task before its Content
\* is set
NewConnRecord(t, u) ==
    [type |-> t, uri |-> URLString(u), host |-> u.Host,
     ctype |-> IF t = "request" THEN "application/http; msgtype=request"
               ELSE "application/http; msgtype=response",
     Content |-> None, PayloadPath |-> NoPath]

\* warc.go:67  everything the pipe of a side delivers up to its end
StreamBytes(t) == IF t = "request" THEN "requestBytes" ELSE "responseBytes"

\* the other side of the exchange
Other(t) == IF t = "request" THEN "response" ELSE "request"

\* part_000:109-113  what Capture returns
CaptureSwallow(outs, e) == [kind |-> "Capture", outlinks |-> outs, err |-> FALSE]
CaptureResult(outs, e) ==
    IF e THEN [kind |-> "Capture", outlinks |-> {}, err |-> TRUE]
    ELSE [kind |-> "Capture", outlinks |-> outs, err |-> FALSE]

NoRecord == [type |-> None]
\* no URL: the zero url.URL
NoURL == [Scheme |-> <<>>, Host |-> <<>>, Path |-> <<>>]
NoBatch == [id |-> 0, Records |-> <<>>, Done |-> NoChan]
NoRet == [kind |-> None]
\* the locals of Capture before its first statement (part_000:100)
NoCap == [item |-> [needBrowser |-> FALSE, page |-> <<>>], outlinks |-> {}, err |-> FALSE]
\* the locals of writeWARC as its declarations leave them (warc.go:132-136)
NoWW == [resp |-> [ContentLength |-> 0], filePath |-> NoPath, responsePath |-> NoPath,
         responseRecord |-> NoRecord, batch |-> NoBatch]
\* writeWARCFromConnection before it is called: no task runs
NoWC == [URL |-> NoURL, batch |-> NoBatch,
         task |-> [t \in Tasks |-> None], buf |-> [t \in Tasks |-> None]]
NoHist == [strategy |-> None, page |-> <<>>, failedAt |-> None, docFetched |-> FALSE,
           extracted |-> FALSE, sent |-> 0, batchId |-> 0, gotFrom |-> 0,
           cancelledAt |-> None]

\* ------------------------------------------------------------------ Init
Init ==
    /\ Headless \in BOOLEAN
    /\ MaxHops \in 0..MaxHopsBound
    /\ chanCap \in 1..QueueCap
    /\ held \in Tasks \cup {None}
    /\ pc = [w \in Workers |-> "idle"]
    /\ cap = [w \in Workers |-> NoCap]
    /\ ww = [w \in Workers |-> NoWW]
    /\ wc = [w \in Workers |-> NoWC]
    /\ WaitGroup = 0
    /\ crashed = FALSE
    /\ ret = [w \in Workers |-> NoRet]
    /\ hist = [w \in Workers |-> NoHist]
    /\ files = {}
    /\ nextUUID = 1
    /\ queue = <<>>
    /\ wpc = "recv"
    /\ wbatch = NoBatch
    /\ widx = 1
    /\ output = <<>>
    /\ rateCounter = 0
    /\ calls = 0
    /\ captures = 0
    /\ submitted = <<>>
    /\ signalled = <<>>

\* worker w is at position p of its call and the process is alive (a panic
\* ends every goroutine)
At(w, p) == ~crashed /\ pc[w] = p

\* a worker that is not inside a call may start one
CanStart(w) ==
    /\ ~crashed
    /\ pc[w] \in {"idle", "ww_ret", "cap_ret", "wc_ret"}
    /\ calls < MaxCalls

\* --------------------------------------------------------------- writeWARC

\* warc.go:131-147  a worker enters writeWARC(resp); the response record gets
\* its headers and the Content-Length test picks the branch
StartWriteWARC(w) ==
    /\ CanStart(w)
    /\ \E L \in ContentLengths, u \in URLs :
         LET r == [ContentLength |-> L, URL |-> u] IN
         /\ ww' = [ww EXCEPT ![w] = [NoWW EXCEPT !.resp = r,
                                                 !.responseRecord = NewResponseRecord(r)]]
         /\ pc' = [pc EXCEPT ![w] = IF NeedSpool(L) THEN "drf_open" ELSE "ww_dumpresp"]
    /\ calls' = calls + 1
    /\ ret' = [ret EXCEPT ![w] = NoRet]
    /\ hist' = [hist EXCEPT ![w] = NoHist]
    /\ UNCHANGED <<configVars, connVars, cap, files, nextUUID, queue, writerVars,
                   rateCounter, captures, submitted>>

\* writeWARC returns (path, e); its locals are gone with its frame
Return(w, path, e, step) ==
    /\ hist' = [hist EXCEPT ![w].failedAt = step]
    /\ ret' = [ret EXCEPT ![w] = [kind |-> "writeWARC", path |-> path, err |-> e]]
    /\ ww' = [ww EXCEPT ![w] = NoWW]
    /\ pc' = [pc EXCEPT ![w] = "ww_ret"]

\* warc.go:26-28  dumpResponseToFile creates the uniquely named file
DRF_OpenOk(w) ==
    /\ At(w, "drf_open")
    /\ ww' = [ww EXCEPT ![w].filePath = nextUUID]
    /\ nextUUID' = nextUUID + 1
    /\ files' = files \cup {nextUUID}
    /\ pc' = [pc EXCEPT ![w] = "drf_write"]
    /\ UNCHANGED <<configVars, connVars, cap, ret, hist, queue, writerVars, rateCounter,
                   calls, captures, submitted>>

\* warc.go:28-31,149-151  os.OpenFile fails: "" and the error go back to the
\* caller of writeWARC
DRF_OpenFail(w) ==
    /\ At(w, "drf_open")
    /\ Return(w, NoPath, TRUE, "open")
    /\ UNCHANGED <<configVars, connVars, cap, files, nextUUID, queue, writerVars,
                   rateCounter, calls, captures, submitted>>

\* warc.go:35-41,148-153  resp.Write succeeds: dumpResponseToFile returns the
\* path, which becomes responsePath and the record's PayloadPath
DRF_WriteOk(w) ==
    /\ At(w, "drf_write")
    /\ ww' = [ww EXCEPT ![w].responsePath = ww[w].filePath,
                        ![w].responseRecord.PayloadPath = ww[w].filePath,
                        ![w].filePath = NoPath]
    /\ pc' = [pc EXCEPT ![w] = "ww_dumpreq"]
    /\ UNCHANGED <<configVars, connVars, cap, ret, hist, files, nextUUID, queue,
                   writerVars, rateCounter, calls, captures, submitted>>

\* warc.go:35-39,149-151  resp.Write fails: the file is removed
DRF_WriteFailKeep(w) ==
    /\ At(w, "drf_write")
    /\ Return(w, NoPath, TRUE, "write")
    /\ UNCHANGED <<configVars, connVars, cap, files, nextUUID, queue, writerVars,
                   rateCounter, calls, captures, submitted>>

DRF_WriteFail(w) ==
    /\ At(w, "drf_write")
    /\ files' = files \ {ww[w].filePath}
    /\ Return(w, NoPath, TRUE, "write")
    /\ UNCHANGED <<configVars, connVars, cap, nextUUID, queue, writerVars, rateCounter,
                   calls, captures, submitted>>

\* warc.go:155-160  httputil.DumpResponse succeeds: the record holds the dump
WW_DumpResponseOk(w) ==
    /\ At(w, "ww_dumpresp")
    /\ ww' = [ww EXCEPT ![w].responseRecord.Content = "responseDump"]
    /\ pc' = [pc EXCEPT ![w] = "ww_dumpreq"]
    /\ UNCHANGED <<configVars, connVars, cap, ret, hist, files, nextUUID, queue,
                   writerVars, rateCounter, calls, captures, submitted>>

\* warc.go:155-158  httputil.DumpResponse fails
WW_DumpResponseFail(w) ==
    /\ At(w, "ww_dumpresp")
    /\ Return(w, ww[w].responsePath, TRUE, "response_dump")
    /\ UNCHANGED <<configVars, connVars, cap, files, nextUUID, queue, writerVars,
                   rateCounter, calls, captures, submitted>>

\* warc.go:164,170-180  httputil.DumpRequestOut succeeds: the request record
\* is built and both records are appended to the batch, response first
WW_DumpRequestOk(w) ==
    /\ At(w, "ww_dumpreq")
    /\ ww' = [ww EXCEPT ![w].batch.Records =
                            <<ww[w].responseRecord, NewRequestRecord(ww[w].resp)>>]
    /\ pc' = [pc EXCEPT ![w] = "ww_send"]
    /\ UNCHANGED <<configVars, connVars, cap, ret, hist, files, nextUUID, queue,
                   writerVars, rateCounter, calls, captures, submitted>>

\* warc.go:164-168  httputil.DumpRequestOut fails: os.Remove(responsePath)
\* (which removes nothing when responsePath is "") and the error is returned
WW_DumpRequestFailKeep(w) ==
    /\ At(w, "ww_dumpreq")
    /\ Return(w, ww[w].responsePath, TRUE, "request_dump")
    /\ UNCHANGED <<configVars, connVars, cap, files, nextUUID, queue, writerVars,
                   rateCounter, calls, captures, submitted>>

WW_DumpRequestFail(w) ==
    /\ At(w, "ww_dumpreq")
    /\ files' = files \ {ww[w].responsePath}
    /\ Return(w, ww[w].responsePath, TRUE, "request_dump")
    /\ UNCHANGED <<configVars, connVars, cap, nextUUID, queue, writerVars, rateCounter,
                   calls, captures, submitted>>

\* the batch as it is sent: the number of its submission and, for a spooled
\* response, the Done channel of warc.go:186
StampDoneAlways(b, spooled) ==
    [b EXCEPT !.id = Len(submitted) + 1, !.Done = MakeDone(Len(submitted) + 1)]

Stamp(b, spooled) ==
    [b EXCEPT !.id = Len(submitted) + 1,
              !.Done = IF spooled THEN MakeDone(Len(submitted) + 1) ELSE NoChan]

\* warc.go:185-187  a spooled response: the batch gets its Done channel and is
\* sent; the producer then waits on Done (line 188)
WW_SendSpooledAndRemove(w) ==
    /\ At(w, "ww_send")
    /\ ww[w].responsePath # NoPath
    /\ Len(queue) < chanCap
    /\ ww' = [ww EXCEPT ![w].batch = Stamp(ww[w].batch, TRUE)]
    /\ queue' = Send(queue, Stamp(ww[w].batch, TRUE))
    /\ submitted' = Append(submitted, Stamp(ww[w].batch, TRUE))
    /\ hist' = [hist EXCEPT ![w].sent = hist[w].sent + 1,
                            ![w].batchId = Len(submitted) + 1]
    /\ files' = files \ {ww[w].responsePath}
    /\ pc' = [pc EXCEPT ![w] = "ww_wait"]
    /\ UNCHANGED <<configVars, connVars, cap, ret, nextUUID, writerVars, rateCounter,
                   calls, captures>>

WW_SendSpooledNoWait(w) ==
    /\ At(w, "ww_send")
    /\ ww[w].responsePath # NoPath
    /\ Len(queue) < chanCap
    /\ queue' = Send(queue, Stamp(ww[w].batch, TRUE))
    /\ submitted' = Append(submitted, Stamp(ww[w].batch, TRUE))
    /\ hist' = [hist EXCEPT ![w].sent = hist[w].sent + 1,
                            ![w].batchId = Len(submitted) + 1]
    /\ ret' = [ret EXCEPT ![w] = [kind |-> "writeWARC", path |-> ww[w].responsePath,
                                  err |-> FALSE]]
    /\ ww' = [ww EXCEPT ![w] = NoWW]
    /\ pc' = [pc EXCEPT ![w] = "ww_ret"]
    /\ UNCHANGED <<configVars, connVars, cap, files, nextUUID, writerVars,
                   rateCounter, calls, captures>>

WW_SendSpooled(w) ==
    /\ At(w, "ww_send")
    /\ ww[w].responsePath # NoPath
    /\ Len(queue) < chanCap
    /\ ww' = [ww EXCEPT ![w].batch = Stamp(ww[w].batch, TRUE)]
    /\ queue' = Send(queue, Stamp(ww[w].batch, TRUE))
    /\ submitted' = Append(submitted, Stamp(ww[w].batch, TRUE))
    /\ hist' = [hist EXCEPT ![w].sent = hist[w].sent + 1,
                            ![w].batchId = Len(submitted) + 1]
    /\ pc' = [pc EXCEPT ![w] = "ww_wait"]
    /\ UNCHANGED <<configVars, connVars, cap, ret, files, nextUUID, writerVars,
                   rateCounter, calls, captures>>

\* warc.go:189-193  a response held in memory: the batch is sent without a
\* Done channel and writeWARC returns ("", nil)
WW_SendInMemory(w) ==
    /\ At(w, "ww_send")
    /\ ww[w].responsePath = NoPath
    /\ Len(queue) < chanCap
    /\ queue' = Send(queue, Stamp(ww[w].batch, FALSE))
    /\ submitted' = Append(submitted, Stamp(ww[w].batch, FALSE))
    /\ hist' = [hist EXCEPT ![w].sent = hist[w].sent + 1,
                            ![w].batchId = Len(submitted) + 1]
    /\ ret' = [ret EXCEPT ![w] = [kind |-> "writeWARC", path |-> NoPath, err |-> FALSE]]
    /\ ww' = [ww EXCEPT ![w] = NoWW]
    /\ pc' = [pc EXCEPT ![w] = "ww_ret"]
    /\ UNCHANGED <<configVars, connVars, cap, files, nextUUID, writerVars, rateCounter,
                   calls, captures>>

\* warc.go:188,193  recordBatch.Done <- true meets <-batch.Done of the
\* producer waiting on that channel; writeWARC returns (responsePath, nil)
WW_RecvDone(w) ==
    /\ wpc = "signal"
    /\ At(w, "ww_wait")
    /\ ww[w].batch.Done = wbatch.Done
    /\ signalled' = Append(signalled, wbatch.id)
    /\ wpc' = "recv"
    /\ hist' = [hist EXCEPT ![w].gotFrom = wbatch.id]
    /\ ret' = [ret EXCEPT ![w] = [kind |-> "writeWARC", path |-> ww[w].responsePath,
                                  err |-> FALSE]]
    /\ ww' = [ww EXCEPT ![w] = NoWW]
    /\ pc' = [pc EXCEPT ![w] = "ww_ret"]
    /\ UNCHANGED <<configVars, connVars, cap, files, nextUUID, queue, wbatch, widx, output,
                   rateCounter, calls, captures, submitted>>

\* the positions of a running writeWARC call
WWRunning == {"drf_open", "drf_write", "ww_dumpresp", "ww_dumpreq", "ww_send", "ww_wait"}

\* part_000:100, warc.go:131  the context that governs the item is cancelled
\* while writeWARC runs for it.  writeWARC takes no context and no statement
\* of it reads one: the call goes on as before
Cancel(w) ==
    /\ ~crashed
    /\ pc[w] \in WWRunning
    /\ hist[w].cancelledAt = None
    /\ hist' = [hist EXCEPT ![w].cancelledAt = pc[w]]
    /\ UNCHANGED <<configVars, connVars, pc, cap, ww, ret, files, nextUUID, queue,
                   writerVars, rateCounter, calls, captures, submitted>>

\* ------------------------------------------------- writeWARCFromConnection

\* the caller's c.WaitGroup.Add(1), made before it calls
\* writeWARCFromConnection
CallerAdd(n) == n + 1

\* warc.go:67-117  a worker enters writeWARCFromConnection, counted in
\* c.WaitGroup by its caller, and starts the two drain tasks
StartConn(w) ==
    /\ CanStart(w)
    /\ \E u \in URLs :
         wc' = [wc EXCEPT ![w] = [URL |-> u, batch |-> NoBatch,
                                  task |-> [t \in Tasks |-> "ready"],
                                  buf |-> [t \in Tasks |-> None]]]
    /\ WaitGroup' = CallerAdd(WaitGroup)
    /\ pc' = [pc EXCEPT ![w] = "wc_wait"]
    /\ calls' = calls + 1
    /\ ret' = [ret EXCEPT ![w] = NoRet]
    /\ hist' = [hist EXCEPT ![w] = NoHist]
    /\ UNCHANGED <<configVars, cap, ww, crashed, files, nextUUID, queue,
                   writerVars, rateCounter, captures, submitted>>

\* warc.go:75,119  swg.Wait(): nothing was added to swg, so the wait ends
\* at once
Conn_WaitReleases(w) ==
    /\ At(w, "wc_wait")
    /\ WaitGroup' = WaitGroup - 1
    /\ pc' = [pc EXCEPT ![w] = "wc_recv"]
    /\ UNCHANGED <<configVars, wc, crashed, cap, ww, ret, hist, files, nextUUID,
                   queue, writerVars, rateCounter, calls, captures, submitted>>

Conn_Wait(w) ==
    /\ At(w, "wc_wait")
    /\ pc' = [pc EXCEPT ![w] = "wc_recv"]
    /\ UNCHANGED <<configVars, connVars, cap, ww, ret, hist, files, nextUUID,
                   queue, writerVars, rateCounter, calls, captures, submitted>>

\* warc.go:77-88,98-109  a task is scheduled, sets the headers of its record
\* and enters io.Copy: its pipe is being read from now on
Task_BeginInTurn(w, t) ==
    /\ ~crashed
    /\ wc[w].task[t] = "ready"
    /\ t = "response" => wc[w].task["request"] \in {"send", "swg_done"}
    /\ wc' = [wc EXCEPT ![w].task[t] = "copy"]
    /\ UNCHANGED <<configVars, WaitGroup, crashed, pc, cap, ww, ret, hist, files,
                   nextUUID, queue, writerVars, rateCounter, calls, captures,
                   submitted>>

Task_Begin(w, t) ==
    /\ ~crashed
    /\ wc[w].task[t] = "ready"
    /\ wc' = [wc EXCEPT ![w].task[t] = "copy"]
    /\ UNCHANGED <<configVars, WaitGroup, crashed, pc, cap, ww, ret, hist, files,
                   nextUUID, queue, writerVars, rateCounter, calls, captures,
                   submitted>>

\* warc.go:87-93,108-114  io.Copy reaches the end of the task's stream, which
\* a held pipe delivers only once the other pipe is being read
Task_CopyOk(w, t) ==
    /\ ~crashed
    /\ wc[w].task[t] = "copy"
    /\ held = t => wc[w].task[Other(t)] # "ready"
    /\ wc' = [wc EXCEPT ![w].task[t] = "send", ![w].buf[t] = StreamBytes(t)]
    /\ UNCHANGED <<configVars, WaitGroup, crashed, pc, cap, ww, ret, hist, files,
                   nextUUID, queue, writerVars, rateCounter, calls, captures,
                   submitted>>

\* warc.go:88-91,109-112  io.Copy fails: the task panics
Task_CopyFail(w, t) ==
    /\ ~crashed
    /\ wc[w].task[t] = "copy"
    /\ crashed' = TRUE
    /\ UNCHANGED <<configVars, wc, WaitGroup, pc, cap, ww, ret, hist, files,
                   nextUUID, queue, writerVars, rateCounter, calls, captures,
                   submitted>>

\* warc.go:93-95,114-116,121-124  a task hands its record, holding its
\* buffer, over on recordChan and the call appends it to the batch; the task
\* goes on to its deferred swg.Done(), a receive from the barrier's channel
\* that no Add has filled
Conn_RecvOnlyOne(w, t) ==
    /\ At(w, "wc_recv")
    /\ wc[w].task[t] = "send"
    /\ wc' = [wc EXCEPT ![w].task[t] = "swg_done",
                        ![w].batch.Records =
                            Append(wc[w].batch.Records,
                                   [NewConnRecord(t, wc[w].URL)
                                        EXCEPT !.Content = wc[w].buf[t]])]
    /\ pc' = [pc EXCEPT ![w] = "wc_send"]
    /\ UNCHANGED <<configVars, WaitGroup, crashed, cap, ww, ret, hist, files,
                   nextUUID, queue, writerVars, rateCounter, calls, captures,
                   submitted>>

Conn_RecvRecord(w, t) ==
    /\ At(w, "wc_recv")
    /\ wc[w].task[t] = "send"
    /\ wc' = [wc EXCEPT ![w].task[t] = "swg_done",
                        ![w].batch.Records =
                            Append(wc[w].batch.Records,
                                   [NewConnRecord(t, wc[w].URL)
                                        EXCEPT !.Content = wc[w].buf[t]])]
    /\ pc' = [pc EXCEPT ![w] = IF Len(wc[w].batch.Records) + 1 = 2 THEN "wc_send"
                               ELSE "wc_recv"]
    /\ UNCHANGED <<configVars, WaitGroup, crashed, cap, ww, ret, hist, files,
                   nextUUID, queue, writerVars, rateCounter, calls, captures,
                   submitted>>

\* warc.go:68,126-128  the batch is sent, the call returns nil and releases
\* c.WaitGroup
Conn_Send(w) ==
    /\ At(w, "wc_send")
    /\ Len(queue) < chanCap
    /\ queue' = Send(queue, Stamp(wc[w].batch, FALSE))
    /\ submitted' = Append(submitted, Stamp(wc[w].batch, FALSE))
    /\ hist' = [hist EXCEPT ![w].sent = hist[w].sent + 1,
                            ![w].batchId = Len(submitted) + 1]
    /\ wc' = [wc EXCEPT ![w].batch = NoBatch]
    /\ WaitGroup' = WaitGroup - 1
    /\ ret' = [ret EXCEPT ![w] = [kind |-> "writeWARCFromConnection", err |-> FALSE]]
    /\ pc' = [pc EXCEPT ![w] = "wc_ret"]
    /\ UNCHANGED <<configVars, crashed, cap, ww, files, nextUUID, writerVars,
                   rateCounter, calls, captures>>

\* ------------------------------------------------------------ the writer

\* the writer takes the next batch from c.WARCWriter
Writer_Recv ==
    /\ ~crashed
    /\ wpc = "recv"
    /\ queue # <<>>
    /\ wbatch' = Head(queue)
    /\ queue' = Tail(queue)
    /\ widx' = 1
    /\ wpc' = "write"
    /\ UNCHANGED <<configVars, connVars, pc, cap, ww, ret, hist, files, nextUUID, output,
                   signalled, rateCounter, calls, captures, submitted>>

\* the writer serializes one record of the batch it holds; after the last
\* one it signals Done when the batch has one, else takes the next batch
Writer_Write ==
    /\ ~crashed
    /\ wpc = "write"
    /\ widx <= Len(wbatch.Records)
    /\ output' = Append(output, [id |-> wbatch.id, idx |-> widx,
                                 rec |-> wbatch.Records[widx]])
    /\ widx' = widx + 1
    /\ wpc' = IF widx < Len(wbatch.Records) THEN "write"
              ELSE IF wbatch.Done # NoChan THEN "signal" ELSE "recv"
    /\ UNCHANGED <<configVars, connVars, pc, cap, ww, ret, hist, files, nextUUID, queue,
                   wbatch, signalled, rateCounter, calls, captures, submitted>>

\* ----------------------------------------------------------------- Capture

\* part_000:100-106  a worker enters Capture(ctx, item) and the strategy is
\* chosen
StartCapture(w) ==
    /\ CanStart(w)
    /\ \E nb \in BOOLEAN, page \in Pages :
         LET it == [needBrowser |-> nb, page |-> page] IN
         /\ cap' = [cap EXCEPT ![w] = [NoCap EXCEPT !.item = it]]
         /\ pc' = [pc EXCEPT ![w] = IF UseBrowser(it, Headless) THEN "cb_navigate"
                                    ELSE "cg_get"]
         /\ hist' = [hist EXCEPT ![w] =
                       [NoHist EXCEPT !.page = page,
                                      !.strategy = IF UseBrowser(it, Headless)
                                                   THEN "browser" ELSE "get"]]
    /\ calls' = calls + 1
    /\ ret' = [ret EXCEPT ![w] = NoRet]
    /\ UNCHANGED <<configVars, connVars, ww, files, nextUUID, queue, writerVars,
                   rateCounter, captures, submitted>>

\* the chosen strategy returns (outlinks, err) to Capture
StrategyFails(w, step) ==
    /\ cap' = [cap EXCEPT ![w].err = TRUE]
    /\ hist' = [hist EXCEPT ![w].failedAt = step]
    /\ pc' = [pc EXCEPT ![w] = "cap_incr"]
    /\ UNCHANGED <<configVars, connVars, ww, ret, files, nextUUID, queue, writerVars,
                   rateCounter, calls, captures, submitted>>

\* part_000:42-44  network.Enable and chromedp.Navigate succeed
CB_NavigateOk(w) ==
    /\ At(w, "cb_navigate")
    /\ pc' = [pc EXCEPT ![w] = "cb_action"]
    /\ UNCHANGED <<configVars, connVars, cap, ww, ret, hist, files, nextUUID, queue,
                   writerVars, rateCounter, calls, captures, submitted>>

\* part_000:42-44,66-68  the render fails
CB_NavigateFail(w) ==
    /\ At(w, "cb_navigate")
    /\ StrategyFails(w, "render")

\* part_000:46,63,70  MaxHops is 0: the ActionFunc returns at once
CB_ActionSkip(w) ==
    /\ At(w, "cb_action")
    /\ ~HopGuard(MaxHops)
    /\ pc' = [pc EXCEPT ![w] = "cap_incr"]
    /\ UNCHANGED <<configVars, connVars, cap, ww, ret, hist, files, nextUUID, queue,
                   writerVars, rateCounter, calls, captures, submitted>>

\* part_000:46-51  dom.GetDocument succeeds
CB_GetDocumentOk(w) ==
    /\ At(w, "cb_action")
    /\ HopGuard(MaxHops)
    /\ hist' = [hist EXCEPT ![w].docFetched = TRUE]
    /\ pc' = [pc EXCEPT ![w] = "cb_outer"]
    /\ UNCHANGED <<configVars, connVars, cap, ww, ret, files, nextUUID, queue,
                   writerVars, rateCounter, calls, captures, submitted>>

\* part_000:48-51,66-68  dom.GetDocument fails
CB_GetDocumentFail(w) ==
    /\ At(w, "cb_action")
    /\ HopGuard(MaxHops)
    /\ StrategyFails(w, "document")

\* part_000:52-60,70  dom.GetOuterHTML succeeds and the outlinks are extracted
CB_GetOuterHTMLOk(w) ==
    /\ At(w, "cb_outer")
    /\ cap' = [cap EXCEPT ![w].outlinks = extractOutlinks(cap[w].item.page)]
    /\ hist' = [hist EXCEPT ![w].extracted = TRUE]
    /\ pc' = [pc EXCEPT ![w] = "cap_incr"]
    /\ UNCHANGED <<configVars, connVars, ww, ret, files, nextUUID, queue, writerVars,
                   rateCounter, calls, captures, submitted>>

\* part_000:52-55,66-68  dom.GetOuterHTML fails
CB_GetOuterHTMLFail(w) ==
    /\ At(w, "cb_outer")
    /\ StrategyFails(w, "outer_html")

\* part_000:75-85  http.Get succeeds
CG_GetOk(w) ==
    /\ At(w, "cg_get")
    /\ pc' = [pc EXCEPT ![w] = "cg_read"]
    /\ UNCHANGED <<configVars, connVars, cap, ww, ret, hist, files, nextUUID, queue,
                   writerVars, rateCounter, calls, captures, submitted>>

\* part_000:75-78  http.Get fails
CG_GetFail(w) ==
    /\ At(w, "cg_get")
    /\ StrategyFails(w, "fetch")

\* part_000:88-96  the body is read and the outlinks are extracted
CG_ReadAllOk(w) ==
    /\ At(w, "cg_read")
    /\ cap' = [cap EXCEPT ![w].outlinks = extractOutlinks(cap[w].item.page)]
    /\ hist' = [hist EXCEPT ![w].extracted = TRUE]
    /\ pc' = [pc EXCEPT ![w] = "cap_incr"]
    /\ UNCHANGED <<configVars, connVars, ww, ret, files, nextUUID, queue, writerVars,
                   rateCounter, calls, captures, submitted>>

\* part_000:88-91  ioutil.ReadAll fails
CG_ReadAllFail(w) ==
    /\ At(w, "cg_read")
    /\ StrategyFails(w, "read")

\* part_000:107  c.URLsPerSecond.Incr(1), an atomic add
Cap_IncrOnSuccess(w) ==
    /\ At(w, "cap_incr")
    /\ rateCounter' = IF cap[w].err THEN rateCounter ELSE rateCounter + 1
    /\ pc' = [pc EXCEPT ![w] = "cap_check"]
    /\ UNCHANGED <<configVars, connVars, cap, ww, ret, hist, files, nextUUID, queue,
                   writerVars, calls, captures, submitted>>

Cap_Incr(w) ==
    /\ At(w, "cap_incr")
    /\ rateCounter' = rateCounter + 1
    /\ pc' = [pc EXCEPT ![w] = "cap_check"]
    /\ UNCHANGED <<configVars, connVars, cap, ww, ret, hist, files, nextUUID, queue,
                   writerVars, calls, captures, submitted>>

\* part_000:109-113  Capture returns
Cap_Return(w) ==
    /\ At(w, "cap_check")
    /\ ret' = [ret EXCEPT ![w] = CaptureResult(cap[w].outlinks, cap[w].err)]
    /\ cap' = [cap EXCEPT ![w] = NoCap]
    /\ captures' = captures + 1
    /\ pc' = [pc EXCEPT ![w] = "cap_ret"]
    /\ UNCHANGED <<configVars, connVars, ww, hist, files, nextUUID, queue, writerVars,
                   rateCounter, calls, submitted>>

\* ---------------------------------------------------------- specifications

WriteWARCStep(w) ==
    \/ StartWriteWARC(w)
    \/ DRF_OpenOk(w) \/ DRF_OpenFail(w)
    \/ DRF_WriteOk(w) \/ DRF_WriteFail(w)
    \/ WW_DumpResponseOk(w) \/ WW_DumpResponseFail(w)
    \/ WW_DumpRequestOk(w) \/ WW_DumpRequestFail(w)
    \/ WW_SendSpooled(w) \/ WW_SendInMemory(w)
    \/ WW_RecvDone(w)

CaptureStep(w) ==
    \/ StartCapture(w)
    \/ CB_NavigateOk(w) \/ CB_NavigateFail(w)
    \/ CB_ActionSkip(w)
    \/ CB_GetDocumentOk(w) \/ CB_GetDocumentFail(w)
    \/ CB_GetOuterHTMLOk(w) \/ CB_GetOuterHTMLFail(w)
    \/ CG_GetOk(w) \/ CG_GetFail(w)
    \/ CG_ReadAllOk(w) \/ CG_ReadAllFail(w)
    \/ Cap_Incr(w)
    \/ Cap_Return(w)

ConnStep(w) ==
    \/ StartConn(w)
    \/ Conn_Wait(w)
    \/ \E t \in Tasks : Task_Begin(w, t)
    \/ \E t \in Tasks : Task_CopyOk(w, t)
    \/ \E t \in Tasks : Task_CopyFail(w, t)
    \/ \E t \in Tasks : Conn_RecvRecord(w, t)
    \/ Conn_Send(w)

WriterStep == Writer_Recv \/ Writer_Write

Next ==
    \/ \E w \in Workers : WriteWARCStep(w)
    \/ \E w \in Workers : ConnStep(w)
    \/ \E w \in Workers : CaptureStep(w)
    \/ WriterStep

\* every worker may run Capture, writeWARC and writeWARCFromConnection calls,
\* beside the writer
Spec == Init /\ [][Next]_vars

\* both kinds of producers and the writer; no producer reads c.Headless or
\* c.MaxHops, so one configuration stands for all.  A send waits while the
\* channel is full, so every run with a smaller channel is also a run with
\* the largest one, and every run with a held pipe is also a run with none
InitProducers ==
    Init /\ Headless = FALSE /\ MaxHops = 0 /\ chanCap = QueueCap /\ held = None
NextProducers ==
    \/ \E w \in Workers : WriteWARCStep(w)
    \/ \E w \in Workers : ConnStep(w)
    \/ WriterStep
SpecProducers == InitProducers /\ [][NextProducers]_vars

\* the capture workers under every configuration of the crawl; they send
\* nothing and read no pipe
InitCapture == Init /\ chanCap = QueueCap /\ held = None
NextCapture == \E w \in Workers : CaptureStep(w)
SpecCapture == InitCapture /\ [][NextCapture]_vars

\* the writeWARC producers and the writer, for every capacity of the channel
InitWrite == Init /\ Headless = FALSE /\ MaxHops = 0 /\ held = None
\* ... with items whose context may be cancelled at any point of the call
NextCancel ==
    \/ \E w \in Workers : WriteWARCStep(w)
    \/ \E w \in Workers : Cancel(w)
    \/ WriterStep
SpecCancel == InitWrite /\ [][NextCancel]_vars

\* the writeWARC producers beside a fair writer.  The scheduler runs every
\* goroutine that can take a step, a sender waiting on the full channel is
\* served when the writer receives, and the writer keeps working
NextWrite ==
    \/ \E w \in Workers : WriteWARCStep(w)
    \/ WriterStep
WWProgress(w) ==
    \/ DRF_OpenOk(w) \/ DRF_OpenFail(w)
    \/ DRF_WriteOk(w) \/ DRF_WriteFail(w)
    \/ WW_DumpResponseOk(w) \/ WW_DumpResponseFail(w)
    \/ WW_DumpRequestOk(w) \/ WW_DumpRequestFail(w)
    \/ WW_RecvDone(w)
WriteFairness ==
    /\ WF_vars(WriterStep)
    /\ \A w \in Workers :
         /\ WF_vars(WWProgress(w))
         /\ SF_vars(WW_SendSpooled(w) \/ WW_SendInMemory(w))
SpecWriteFair == InitWrite /\ [][NextWrite]_vars /\ WriteFairness

\* the streaming producers and the writer, for every capacity of the
\* channel and every way the pipes of an exchange depend on each other
InitConn == Init /\ Headless = FALSE /\ MaxHops = 0
NextConn ==
    \/ \E w \in Workers : ConnStep(w)
    \/ WriterStep
SpecConn == InitConn /\ [][NextConn]_vars

\* one streaming producer, call after call, and the writer.  The calls of
\* different producers share nothing but the channel, which the earlier
\* batches of this producer fill as well.  The scheduler runs every goroutine
\* that can take a step; a sender waiting on the full channel is served when
\* the writer receives; the writer keeps taking batches; and a stream that
\* does not fail ends
OneWorker == CHOOSE w \in Workers : TRUE
NextConnOne ==
    \/ ConnStep(OneWorker)
    \/ WriterStep
ConnFairness ==
    /\ WF_vars(WriterStep)
    /\ WF_vars(Conn_Wait(OneWorker))
    /\ SF_vars(Conn_Send(OneWorker))
    /\ \A t \in Tasks :
         /\ WF_vars(Task_Begin(OneWorker, t))
         /\ WF_vars(Task_CopyOk(OneWorker, t))
         /\ WF_vars(Conn_RecvRecord(OneWorker, t))
SpecConnFair == InitConn /\ [][NextConnOne]_vars /\ ConnFairness

\* ------------------------------------------------------------------ claims

\* the positions of writeWARC after the response record has its payload
AfterResponseDump == {"ww_dumpreq", "ww_send", "ww_wait"}

\* the response record is held in memory and no spool file belongs to the call
InMemory(w) ==
    /\ ww[w].responseRecord.Content # None
    /\ ww[w].responseRecord.PayloadPath = NoPath
    /\ ww[w].responsePath = NoPath

\* the response was spooled to a file whose path the record carries
Spooled(w) ==
    /\ ww[w].responseRecord.Content = None
    /\ ww[w].responseRecord.PayloadPath # NoPath
    /\ ww[w].responseRecord.PayloadPath = ww[w].responsePath
    /\ ww[w].responsePath \in files

\* C1 as stated: the response record is in memory exactly when the content
\* length is known and below 2,097,152, and is spooled to a file otherwise
\* (a length of exactly 2,097,152 included).
C1_InMemoryBelowThreshold ==
    \A w \in Workers :
        pc[w] \in AfterResponseDump =>
            LET L == ww[w].resp.ContentLength IN
            /\ InMemory(w) <=> (L # UnknownLength /\ L < Threshold)
            /\ Spooled(w) <=> (L = UnknownLength \/ L >= Threshold)

\* C1 as amended: the response record is in memory exactly when the content
\* length is known and at most 2,097,152, and is spooled to a file exactly
\* when the length is unknown or greater than 2,097,152.
C1_InMemoryUpToThreshold ==
    \A w \in Workers :
        pc[w] \in AfterResponseDump =>
            LET L == ww[w].resp.ContentLength IN
            /\ InMemory(w) <=> (L # UnknownLength /\ L <= Threshold)
            /\ Spooled(w) <=> (L = UnknownLength \/ L > Threshold)

C1_Witness ==
    \E w \in Workers :
        /\ pc[w] = "ww_dumpreq"
        /\ ww[w].resp.ContentLength = Threshold
        /\ InMemory(w)

\* the batches submitted whose completion signal has not fired: those on the
\* queue and the one the writer holds
PendingBatches ==
    {queue[i] : i \in 1..Len(queue)}
        \cup (IF wpc \in {"write", "signal"} THEN {wbatch} ELSE {})

PayloadPaths(b) ==
    {b.Records[i].PayloadPath : i \in 1..Len(b.Records)} \ {NoPath}

\* C2: the spool file of every submitted batch exists in every state from
\* the submission until the writer fires the batch's completion signal.
C2_SpoolFileKeptUntilSignal ==
    \A b \in PendingBatches : PayloadPaths(b) \subseteq files

C2_Witness ==
    /\ wpc = "signal"
    /\ PayloadPaths(wbatch) # {}
    /\ PayloadPaths(wbatch) \subseteq files
    /\ \E w \in Workers : pc[w] = "ww_wait" /\ ww[w].batch.id = wbatch.id

\* C3 as stated: when writeWARC has returned successfully with a non-empty
\* spool path, the spool file no longer exists.
C3_SpoolFileDeletedOnReturn ==
    \A w \in Workers :
        (pc[w] = "ww_ret" /\ ~ret[w].err /\ ret[w].path # NoPath)
            => ret[w].path \notin files

\* C4: when writeWARC returns the error of a failed request dump after the
\* response was spooled, the spool file is absent and the call has submitted
\* no batch.
C4_RequestDumpFailureCleansUp ==
    \A w \in Workers :
        (pc[w] = "ww_ret" /\ hist[w].failedAt = "request_dump" /\ ret[w].path # NoPath)
            => /\ ret[w].err
               /\ ret[w].path \notin files
               /\ hist[w].sent = 0
               /\ \A i \in 1..Len(submitted) : ret[w].path \notin PayloadPaths(submitted[i])

C4_Witness ==
    \E w \in Workers :
        /\ pc[w] = "ww_ret"
        /\ hist[w].failedAt = "request_dump"
        /\ ret[w].path # NoPath
        /\ ret[w].path \notin files

\* the records of the batches bs, batch after batch, each in batch order
RECURSIVE Flatten(_)
Flatten(bs) ==
    IF bs = <<>> THEN <<>>
    ELSE [i \in 1..Len(Head(bs).Records) |->
            [id |-> Head(bs).id, idx |-> i, rec |-> Head(bs).Records[i]]]
         \o Flatten(Tail(bs))

IsPrefix(s, t) ==
    /\ Len(s) <= Len(t)
    /\ \A i \in 1..Len(s) : s[i] = t[i]

\* C5: the output is written in submission order: it is always a prefix of
\* the records of the submitted batches, taken batch after batch in the order
\* the sends completed and, inside a batch, in the order of the batch.
C5_WrittenInSubmissionOrder ==
    IsPrefix(output, Flatten(submitted))

C5_Witness ==
    /\ Len(output) = 4
    /\ output[1].id = 1 /\ output[2].id = 1
    /\ output[3].id = 2 /\ output[4].id = 2
    /\ output[1].rec.Content = "requestBytes"
    /\ output[3].rec.PayloadPath # NoPath

NoDuplicates(s) ==
    \A i, j \in 1..Len(s) : s[i] = s[j] => i = j

Written(id) ==
    Cardinality({i \in 1..Len(output) : output[i].id = id})

\* the number of batches the writer has taken from the queue
Received == Len(submitted) - Len(queue)

\* C6: the writer fires the Done of a batch that carries one exactly once,
\* after it has written every record of the batch, and the producer that
\* returns from its wait has received the signal of its own batch.
C6_DoneSignalledOncePerBatch ==
    /\ NoDuplicates(signalled)
    /\ \A i \in 1..Len(signalled) :
         /\ signalled[i] \in 1..Len(submitted)
         /\ submitted[signalled[i]].Done # NoChan
         /\ Written(signalled[i]) = Len(submitted[signalled[i]].Records)
    /\ \A k \in 1..Len(submitted) :
         (submitted[k].Done # NoChan /\ (k < Received \/ (k = Received /\ wpc = "recv")))
            => \E i \in 1..Len(signalled) : signalled[i] = k
    /\ \A w \in Workers :
         pc[w] = "ww_ret" =>
            hist[w].gotFrom = (IF ~ret[w].err /\ ret[w].path # NoPath
                               THEN hist[w].batchId ELSE 0)

C6_Witness ==
    /\ Len(signalled) = 2
    /\ \E w \in Workers :
         /\ pc[w] = "ww_ret"
         /\ hist[w].gotFrom = signalled[2]
         /\ hist[w].batchId = signalled[2]

\* C7: the rate counter equals the number of Capture calls that have passed
\* the increment: once for each, whether the strategy failed or not.
C7_RateCounterCountsCaptures ==
    rateCounter = captures + Cardinality({w \in Workers : pc[w] = "cap_check"})

C7_Witness ==
    /\ rateCounter >= 2
    /\ \E w \in Workers : pc[w] = "cap_ret" /\ ret[w].err
    /\ \E w \in Workers : pc[w] = "cap_check" /\ ~cap[w].err

\* C8 as stated: a successful direct-fetch capture has placed exactly one
\* batch on the writer queue (and returns the outlinks of the body).
C8_GetCaptureSubmitsOneBatch ==
    \A w \in Workers :
        (pc[w] = "cap_ret" /\ hist[w].strategy = "get" /\ ~ret[w].err)
            => /\ hist[w].sent = 1
               /\ ret[w].outlinks = extractOutlinks(hist[w].page)

\* C9: in the rendered variant with MaxHops = 0 the document is never
\* fetched, extractOutlinks is never called and the outlinks stay empty;
\* outlinks are extracted from the rendered document only when MaxHops > 0.
C9_NoExtractionAtHopLimitZero ==
    \A w \in Workers :
        hist[w].strategy = "browser" =>
            /\ MaxHops = 0 =>
                 /\ ~hist[w].docFetched
                 /\ ~hist[w].extracted
                 /\ cap[w].outlinks = {}
                 /\ pc[w] = "cap_ret" => ret[w].outlinks = {}
            /\ hist[w].extracted => MaxHops > 0

C9_Witness ==
    \E w \in Workers :
        /\ pc[w] = "cap_ret"
        /\ hist[w].strategy = "browser"
        /\ MaxHops = 0
        /\ extractOutlinks(hist[w].page) # {}
        /\ ~ret[w].err
        /\ ret[w].outlinks = {}

\* C10: when the fetch, the render or the body read fails, Capture returns
\* the error with an empty outlink set and has placed nothing on the writer
\* queue; every other worker inside a capture can still take its next step.
C10_FailedCaptureReturnsError ==
    \A w \in Workers :
        (pc[w] = "cap_ret" /\ hist[w].failedAt # None)
            => /\ ret[w].err
               /\ ret[w].outlinks = {}
               /\ hist[w].sent = 0
               /\ \A v \in Workers \ {w} :
                    pc[v] \notin {"idle", "cap_ret"} => ENABLED CaptureStep(v)

C10_Witness ==
    \E w, v \in Workers :
        /\ pc[w] = "cap_ret"
        /\ hist[w].failedAt = "read"
        /\ extractOutlinks(hist[w].page) # {}
        /\ ret[w].err
        /\ pc[v] = "cg_read"

\* the positions of a running writeWARCFromConnection call
ConnRunning == {"wc_wait", "wc_recv", "wc_send"}

\* task t of w's call has read its stream to the end
Drained(w, t) == wc[w].task[t] \in {"send", "swg_done"} /\ wc[w].buf[t] = StreamBytes(t)

\* the batch holds one request record and one response record, each with
\* all the bytes of its stream
CompleteExchange(b) ==
    /\ Len(b.Records) = 2
    /\ \E i, j \in 1..2 :
         /\ i # j
         /\ b.Records[i].type = "request"
         /\ b.Records[i].Content = StreamBytes("request")
         /\ b.Records[j].type = "response"
         /\ b.Records[j].Content = StreamBytes("response")

\* C11: writeWARCFromConnection submits nothing before both drain tasks have
\* read their streams to the end; the batch it is about to send and the one
\* it has sent hold exactly two records, the request with all the request
\* bytes and the response with all the response bytes, in either order; a
\* returned call has sent exactly one batch.
C11_BatchAfterBothDrained ==
    \A w \in Workers :
        /\ pc[w] \in {"wc_wait", "wc_recv"} => hist[w].sent = 0
        /\ pc[w] = "wc_send" =>
             /\ hist[w].sent = 0
             /\ \A t \in Tasks : Drained(w, t)
             /\ CompleteExchange(wc[w].batch)
        /\ pc[w] = "wc_ret" =>
             /\ hist[w].sent = 1
             /\ \A t \in Tasks : Drained(w, t)
             /\ hist[w].batchId \in 1..Len(submitted)
             /\ CompleteExchange(submitted[hist[w].batchId])

C11_Witness ==
    \E w \in Workers :
        /\ pc[w] = "wc_ret"
        /\ held = "response"
        /\ submitted[hist[w].batchId].Records[1].type = "response"
        /\ submitted[hist[w].batchId].Records[2].Content = "requestBytes"

Signalled == {signalled[i] : i \in 1..Len(signalled)}

\* C13: a submitted batch carries a Done channel exactly when one of its
\* records is backed by a PayloadPath; a writeWARC call waits after its send
\* exactly when its batch carries Done, and has not returned before that
\* Done fired; a call whose batch carries none has returned with the send,
\* without any signal from the writer.
C13_WaitsIffSpooled ==
    /\ \A k \in 1..Len(submitted) :
         submitted[k].Done # NoChan <=> PayloadPaths(submitted[k]) # {}
    /\ \A w \in Workers :
         /\ pc[w] = "ww_wait" =>
              /\ hist[w].sent = 1
              /\ submitted[hist[w].batchId].Done # NoChan
              /\ hist[w].batchId \notin Signalled
         /\ (pc[w] = "ww_ret" /\ hist[w].sent = 1) =>
              IF submitted[hist[w].batchId].Done # NoChan
              THEN hist[w].batchId \in Signalled /\ hist[w].gotFrom = hist[w].batchId
              ELSE hist[w].gotFrom = 0

C13_Witness ==
    \E w, v \in Workers :
        /\ pc[w] = "ww_ret"
        /\ hist[w].sent = 1
        /\ \E i \in 1..Len(queue) :
             queue[i].id = hist[w].batchId /\ queue[i].Done = NoChan
        /\ pc[v] = "ww_wait"
        /\ wpc = "recv"

\* the Content-Type that goes with a WARC-Type
MsgType(t) ==
    IF t = "request" THEN "application/http; msgtype=request"
    ELSE "application/http; msgtype=response"

\* s is in percent-encoded form: no reserved byte is left in it
PercentEncoded(s) == \A i \in 1..Len(s) : EscapeByte(s[i]) = <<s[i]>>

\* the record carries the four headers, the target in percent-encoded form
\* and the Content-Type of its own WARC-Type
FullHeaders(rec) ==
    /\ rec.type \in {"request", "response"}
    /\ rec.uri # <<>>
    /\ PercentEncoded(rec.uri)
    /\ rec.host # <<>>
    /\ rec.ctype = MsgType(rec.type)

\* C14 as stated: every record of every submitted batch, request or
\* response, carries WARC-Type, WARC-Target-URI, Host and Content-Type, with
\* the target URI percent-encoded and the Content-Type naming the record's
\* own type.
C14_EveryRecordHasFourHeaders ==
    \A k \in 1..Len(submitted) :
        \A i \in 1..Len(submitted[k].Records) : FullHeaders(submitted[k].Records[i])

\* C15 as stated: a writeWARC call whose context was cancelled is never
\* held up, neither at the send on the channel nor at the wait for Done (it
\* can always take its next step towards its return), and when it has
\* returned, the temp file it allocated is gone.
C15_CancelledCallAborts ==
    \A w \in Workers :
        hist[w].cancelledAt # None =>
            /\ pc[w] \in {"ww_send", "ww_wait"} => ENABLED WriteWARCStep(w)
            /\ (pc[w] = "ww_ret" /\ ret[w].path # NoPath) => ret[w].path \notin files

\* the positions inside captureWithBrowser, inside captureWithGET and of
\* Capture after its strategy has returned
InBrowser == {"cb_navigate", "cb_action", "cb_outer"}
InGet == {"cg_get", "cg_read"}
AfterStrategy == {"cap_incr", "cap_check"}

\* the strategy the call of w is in or has been in is the rendered one
\* exactly when the probe of its item and the Headless flag are both true
RightStrategy(w) ==
    /\ pc[w] \in InBrowser => (cap[w].item.needBrowser /\ Headless)
    /\ pc[w] \in InGet => ~(cap[w].item.needBrowser /\ Headless)
    /\ pc[w] \in InBrowser \cup InGet \cup AfterStrategy =>
         hist[w].strategy = (IF cap[w].item.needBrowser /\ Headless THEN "browser"
                             ELSE "get")

\* no step takes a call from one strategy into the other, or back into a
\* strategy once one has returned
OneStrategy(w) ==
    /\ pc[w] \in InBrowser => pc'[w] \notin InGet
    /\ pc[w] \in InGet => pc'[w] \notin InBrowser
    /\ pc[w] \in AfterStrategy => pc'[w] \notin InBrowser \cup InGet

\* C16: a Capture call runs captureWithBrowser exactly when needBrowser(item)
\* and c.Headless are both true and captureWithGET in the three other cases,
\* and it never runs both.
C16_ExactlyOneStrategy ==
    /\ [](\A w \in Workers : RightStrategy(w))
    /\ [][\A w \in Workers : OneStrategy(w)]_vars

C16_Witness ==
    \E w, v \in Workers :
        /\ Headless
        /\ pc[w] = "cb_action" /\ cap[w].item.needBrowser
        /\ pc[v] = "cg_read" /\ ~cap[v].item.needBrowser

\* the streaming producers that have started and not yet returned
InFlight == {w \in Workers : pc[w] \in ConnRunning}

\* C17: c.WaitGroup counts exactly the writeWARCFromConnection calls that
\* have started and not returned (each call releases it once, at its
\* return); a running call has sent nothing and a returned call has sent its
\* batch; so when the counter is zero every started call has sent its batch,
\* and every batch sent is still in the channel or was taken by the writer.
C17_WaitGroupReleasedAfterSend ==
    /\ WaitGroup = Cardinality(InFlight)
    /\ \A w \in Workers :
         /\ pc[w] \in ConnRunning => hist[w].sent = 0
         /\ pc[w] = "wc_ret" => hist[w].sent = 1
    /\ Len(submitted) + Cardinality(InFlight) = calls
    /\ WaitGroup = 0 => Len(submitted) = calls
    /\ Received \in 0..Len(submitted)
    /\ \A i \in 1..Len(queue) : queue[i] = submitted[Received + i]

C17_Witness ==
    /\ WaitGroup = 0
    /\ Len(submitted) = 2
    /\ Len(queue) >= 1
    /\ \E w, v \in Workers : w # v /\ pc[w] = "wc_ret" /\ pc[v] = "wc_ret"

\* the files some call or some submitted batch refers to
Owned ==
    {ww[w].filePath : w \in Workers} \cup {ww[w].responsePath : w \in Workers}
        \cup UNION {PayloadPaths(submitted[k]) : k \in 1..Len(submitted)}

\* C18: no spool file is without an owner (a failed dumpResponseToFile
\* leaves none behind); while dumpResponseToFile runs, writeWARC has built
\* no record batch and sent nothing; and when writeWARC has returned because
\* the open or the write failed, it returned an empty path with the error
\* and has sent no batch.
C18_SpoolFailureLeavesNothing ==
    /\ files \subseteq Owned
    /\ \A w \in Workers :
         /\ pc[w] \in {"drf_open", "drf_write"} =>
              ww[w].batch.Records = <<>> /\ hist[w].sent = 0
         /\ (pc[w] = "ww_ret" /\ hist[w].failedAt \in {"open", "write"}) =>
              /\ ret[w].err
              /\ ret[w].path = NoPath
              /\ hist[w].sent = 0

C18_Witness ==
    \E w \in Workers :
        /\ pc[w] = "ww_ret"
        /\ hist[w].failedAt = "write"
        /\ nextUUID > 1
        /\ files = {}
        /\ submitted = <<>>

\* task t of w's call has run to its end: its deferred swg.Done() has
\* returned.  A task at "swg_done" is inside that call, receiving from the
\* channel of the barrier, which holds one element for every Add made
Terminated(w, t) == wc[w].task[t] \notin {"ready", "copy", "send", "swg_done"}

\* C19 as stated: once writeWARCFromConnection has returned, both drain
\* tasks it started have terminated.
C19_TasksEndWithCall ==
    \A w \in Workers :
        pc[w] = "wc_ret" => \A t \in Tasks : Terminated(w, t)

\* C20: beside a fair writer every writeWARC call returns, whatever the
\* number of producers and the capacity of the channel, and the writer that
\* is about to signal Done gets rid of its signal and goes on to the next
\* batch.
C20_EveryWriteWARCReturns ==
    /\ \A w \in Workers : (pc[w] \in WWRunning) ~> (pc[w] = "ww_ret")
    /\ (wpc = "signal") ~> (wpc = "recv")

C20_Witness ==
    \E w, v \in Workers :
        /\ chanCap = 1
        /\ wpc = "signal"
        /\ pc[w] = "ww_wait" /\ ww[w].batch.Done = wbatch.Done
        /\ pc[v] = "ww_wait"
        /\ queue = <<ww[v].batch>>

====
